---- MODULE Spec2Model ----
(***************************************************************************)
(* Model of the payments engine of src/src/main.rs: the loop of `main`     *)
(* over the input records, the per-client `Ledger` table, the global       *)
(* `HISTORY` of deposit/withdrawal amounts, and the `strict_mode` feature. *)
(*                                                                         *)
(* `Amount` is a wrapper around f64.  Its arithmetic is modelled exactly:  *)
(* a value is sign * (hi * 2^30 + lo) * 2^-FracBits, and every addition or *)
(* subtraction rounds the exact result to 53 significant bits, ties to     *)
(* even, as IEEE-754 binary64 does.                                        *)
(***************************************************************************)
EXTENDS Integers, Sequences, FiniteSets, TLC

(***************************************************************************)
(* Bounds of the model.                                                    *)
(***************************************************************************)
\* number of records read from the input before the stream ends
MaxRecords == 4
\* client ids are 1..NumClients
NumClients == 2
\* transaction ids are 1..NumTx
NumTx == 3
\* amounts are held on a binary grid of 2^-FracBits
FracBits == 56

(***************************************************************************)
(* f64 arithmetic.                                                         *)
(***************************************************************************)
\* number of significant bits of an f64
MantBits == 53
\* the magnitude of a value is kept in two limbs of LimbBits bits
LimbBits == 30

RECURSIVE Pow2(_)
Pow2(e) == IF e = 0 THEN 1 ELSE 2 * Pow2(e - 1)

\* the powers of two up to the limb base, computed once
Pow2Table == [e \in 0..LimbBits |-> Pow2(e)]

Base == Pow2Table[LimbBits]

\* the csv field of an amount, in units of 10^-4 ("0.1" is 1000)
DecimalScale == 10000

\* F applied to the value of v (v is evaluated once, before F)
Let(v, F(_)) == CHOOSE r \in {F(x) : x \in {v}} : TRUE

\* number of bits of a natural number below Base
BitLen(x) == Cardinality({b \in 0..(LimbBits - 1) : Pow2Table[b] <= x})

\* number of bits of the magnitude hi * Base + lo
MagBits(hi, lo) == IF hi > 0 THEN LimbBits + BitLen(hi) ELSE BitLen(lo)

Zero == [neg |-> FALSE, hi |-> 0, lo |-> 0]

\* a magnitude with its sign; zero is always +0.0
MkAmount(neg, hi, lo) ==
    IF hi = 0 /\ lo = 0 THEN Zero ELSE [neg |-> neg, hi |-> hi, lo |-> lo]

\* Round the exact magnitude hi * Base + lo + num / den (0 <= num < den),
\* whose last `unit` - 1 values of lo do not fit in the mantissa, round half
\* to even.
RoundAt(neg, hi, lo, num, den, unit) ==
    LET low  == lo % unit
        kept == lo - low
        \* the discarded part is (low + num / den) / unit of one unit
        twice == 2 * (low * den + num)
        full  == unit * den
        odd   == (kept \div unit) % 2 = 1
        up    == twice > full \/ (twice = full /\ odd)
        lo2   == IF up THEN kept + unit ELSE kept
    IN  IF lo2 >= Base THEN MkAmount(neg, hi + 1, lo2 - Base)
                       ELSE MkAmount(neg, hi, lo2)

\* Round the exact magnitude m.hi * Base + m.lo + m.num / m.den to MantBits
\* significant bits.
RoundMag(neg, mag) ==
    Let(mag, LAMBDA m :
        Let(MagBits(m.hi, m.lo), LAMBDA bits :
            RoundAt(neg, m.hi, m.lo, m.num, m.den,
                    Pow2Table[IF bits > MantBits THEN bits - MantBits ELSE 0])))

Mag(hi, lo, num, den) == [hi |-> hi, lo |-> lo, num |-> num, den |-> den]

\* x < y on magnitudes
MagLess(x, y) == x.hi < y.hi \/ (x.hi = y.hi /\ x.lo < y.lo)

\* the exact sum of two magnitudes
MagAdd(x, y) ==
    LET c == IF x.lo + y.lo >= Base THEN 1 ELSE 0
    IN  Mag(x.hi + y.hi + c, x.lo + y.lo - c * Base, 0, 1)

\* the exact difference of two magnitudes, x >= y
MagSub(x, y) ==
    LET b == IF x.lo < y.lo THEN 1 ELSE 0
    IN  Mag(x.hi - y.hi - b, x.lo - y.lo + b * Base, 0, 1)

FAddValues(x, y) ==
    IF x.neg = y.neg THEN RoundMag(x.neg, MagAdd(x, y))
    ELSE IF MagLess(x, y) THEN RoundMag(y.neg, MagSub(y, x))
    ELSE RoundMag(x.neg, MagSub(x, y))

\* f64 `+`
FAdd(x, y) == Let(<<x, y>>, LAMBDA p : FAddValues(p[1], p[2]))

FNeg(x) == MkAmount(~x.neg, x.hi, x.lo)

\* f64 `-`
FSub(x, y) == Let(<<x, y>>, LAMBDA p : FAddValues(p[1], FNeg(p[2])))

\* f64 `<=` (derived PartialOrd of Amount)
FLe(x, y) ==
    IF x.neg /= y.neg THEN x.neg
    ELSE IF x.neg THEN ~MagLess(x, y) ELSE ~MagLess(y, x)

\* Long division of r / DecimalScale to `left` more binary digits, with the
\* digits produced so far in (hi, lo); yields the magnitude and remainder.
RECURSIVE DivBits(_, _, _, _)
DivBits(hi, lo, r, left) ==
    IF left = 0 THEN Mag(hi, lo, r, DecimalScale)
    ELSE LET r2  == 2 * r
             bit == IF r2 >= DecimalScale THEN 1 ELSE 0
             lo2 == 2 * lo + bit
             c   == IF lo2 >= Base THEN 1 ELSE 0
         IN  DivBits(2 * hi + c, lo2 - c * Base, r2 - bit * DecimalScale, left - 1)

\* The f64 nearest to the decimal k / 10^4: what deserializing the amount
\* field yields. Defined for 2^(MantBits - 1 - FracBits) <= k / 10^4 <
\* 2^(2 * LimbBits - FracBits) only, the fields whose f64 lies on the grid
\* of 2^-FracBits and fits the two limbs: a smaller field needs a finer
\* grid, a larger one a third limb, and ParseAmount has no value there.
ParseAmount(k) ==
    CASE /\ k * Pow2Table[FracBits - MantBits + 1] >= DecimalScale
         /\ k < DecimalScale * Pow2Table[2 * LimbBits - FracBits]
         -> RoundMag(FALSE, DivBits(0, k \div DecimalScale, k % DecimalScale, FracBits))

(***************************************************************************)
(* Input records.                                                          *)
(***************************************************************************)
ClientID == 1..NumClients
TxID == 1..NumTx

\* the amount fields of the input, in units of 10^-4: 0.1 and 0.4
AmountFields == {1000, 4000}

\* the deserialized amount of each field, computed once
Amount == [k \in AmountFields |-> ParseAmount(k)]

Tx == {"deposit", "withdrawal", "dispute", "resolve", "chargeback"}

\* Option<T>: None, or Some(x) with the value at index 1
None == <<>>
Some(x) == <<x>>

\* the amount column of a record: empty, or one of the decimal fields
AmountColumn == {None} \cup {Some(k) : k \in AmountFields}

\* the amount column as serde reads it into Option<Amount>
Deserialize(field) == IF field = None THEN None ELSE Some(Amount[field[1]])

\* a deserialized record: Input(Tx, ClientID, TxID, Option<Amount>)
Input(type, client, tx_id, amount) ==
    [type |-> type, client |-> client, tx |-> tx_id, amount |-> amount]

(***************************************************************************)
(* State.                                                                  *)
(***************************************************************************)
VARIABLES
    accounts,   \* HashMap<ClientID, Ledger> of main
    history,    \* the global HISTORY: HashMap<TxID, Amount>
    strict,     \* whether the build has the feature strict_mode
    pc,         \* "loop": reading records, "panicked": aborted, "done": snapshot written
    consumed,   \* number of records read so far
    tx,         \* the record read last (the loop variable `tx`), None before the first
    before,     \* `ledger` as the last record found it, None before the first
    seen,       \* per tx id carried by a deposit or withdrawal record: its client, and whether it was applied
    disputed,   \* per client, the tx ids of the disputes applied since it was last not Disputed
    output      \* the rows serialized to stdout

vars == <<accounts, history, strict, pc, consumed, tx, before, seen, disputed, output>>

LedgerStatus == {"Default", "Disputed", "Locked"}

\* a derived Default that starts an account in the last status of the enum
DefaultLedgerLocked == [available |-> Zero, held |-> Zero, status |-> "Locked"]

\* impl Default for Ledger
DefaultLedger == [available |-> Zero, held |-> Zero, status |-> "Default"]

\* a table that is rebuilt for each record and holds its client only
EntryAlone(client) ==
    client :> (IF client \in DOMAIN accounts THEN accounts[client]
               ELSE DefaultLedger)

\* accounts.insert(client, Ledger::default()): an insert that overwrites the
\* ledger of a client that is in the table already
EntryOverwritten(client) ==
    [c \in DOMAIN accounts \cup {client} |->
        IF c = client THEN DefaultLedger ELSE accounts[c]]

\* accounts.entry(client).or_insert_with(Ledger::default)
Entry(client) ==
    IF client \in DOMAIN accounts THEN accounts
    ELSE accounts @@ (client :> DefaultLedger)

\* an insert that replaces the table by the new entry
HistoryInsertAlone(tx_id, amount) == tx_id :> amount

\* history_insert!(tx_id, amount)
HistoryInsert(tx_id, amount) ==
    [t \in DOMAIN history \cup {tx_id} |->
        IF t = tx_id THEN amount ELSE history[t]]

\* a lookup that falls back to a zero amount instead of reporting None
HistoryGetOrZero(tx_id) ==
    IF tx_id \in DOMAIN history THEN Some(history[tx_id]) ELSE Some(Zero)

\* HISTORY.lock().unwrap().get(tx_id) of history_get!
HistoryGet(tx_id) ==
    IF tx_id \in DOMAIN history THEN Some(history[tx_id]) ELSE None

\* the check of the lock left out
IsLockedNever(ledger) == FALSE

\* ledger.status == LedgerStatus::Locked
IsLocked(ledger) == ledger.status = "Locked"

\* the check of the dispute left out
IsDisputedAlways(ledger) == TRUE

\* ledger.status == LedgerStatus::Disputed
IsDisputed(ledger) == ledger.status = "Disputed"

\* the comparison the wrong way round
SufficientSwapped(amount, ledger) == FLe(ledger.available, amount)

\* amount <= ledger.available
Sufficient(amount, ledger) == FLe(amount, ledger.available)

\* the total column of a row: ledger.available + ledger.held
Total(ledger) == FAdd(ledger.available, ledger.held)

Init ==
    /\ accounts = <<>>
    /\ history = <<>>
    /\ strict \in BOOLEAN
    /\ pc = "loop"
    /\ consumed = 0
    /\ tx = None
    /\ before = None
    /\ seen = <<>>
    /\ disputed = [c \in ClientID |-> {}]
    /\ output = {}

\* Client ids and transaction ids are opaque keys of the two tables, so the
\* input stream is taken up to their renaming: the n-th client that appears
\* is client n, and the n-th deposit or withdrawal record carries tx id n
\* (transaction ids are globally unique: no two such records share one).
\* A dispute, resolve or chargeback refers to any id carried so far, or to
\* the first id not carried yet, which stands for every unknown id.
NextClient == Cardinality(DOMAIN accounts) + 1

FreshTx == {t \in TxID : t = Cardinality(DOMAIN seen) + 1}

\* the loop reads the next record and fetches the ledger of its client
Read(record, applied) ==
    /\ pc = "loop"
    /\ consumed < MaxRecords
    /\ record.client <= NextClient
    /\ record.tx \in DOMAIN seen \cup FreshTx
    /\ consumed' = consumed + 1
    /\ tx' = record
    /\ before' = Some(Entry(record.client)[record.client])
    /\ seen' = IF record.type \in {"deposit", "withdrawal"}
               THEN [t \in DOMAIN seen \cup {record.tx} |->
                        IF t = record.tx
                        THEN [client |-> record.client, applied |-> applied]
                        ELSE seen[t]]
               ELSE seen
    /\ UNCHANGED <<strict, output>>

\* the panic! compiled in whatever the feature: the run aborts in default
\* mode too
RecoverablePanics(table) ==
    /\ accounts' = table
    /\ pc' = "panicked"
    /\ UNCHANGED <<history, disputed>>

\* the panic! left out: the loop goes on under strict_mode too
RecoverableContinues(table) ==
    /\ accounts' = table
    /\ pc' = "loop"
    /\ UNCHANGED <<history, disputed>>

\* a recoverable condition: `continue` (or fall out of the match arm), or
\* panic! under strict_mode; the entry of the client stays in the table
Recoverable(table) ==
    /\ accounts' = table
    /\ pc' = IF strict THEN "panicked" ELSE "loop"
    /\ UNCHANGED <<history, disputed>>

\* tx.3.expect("missing amount in ... transaction") on a record without
\* amount: a panic in every build; the entry of the client is in the table
Expect(table) ==
    /\ accounts' = table
    /\ pc' = "panicked"
    /\ UNCHANGED <<history, disputed>>

Deposit(client, tx_id, field) ==
    LET given  == Deserialize(field)
        amount == given[1]
        table  == Entry(client)
        ledger == table[client]
    IN  /\ tx_id \in FreshTx
        /\ Read(Input("deposit", client, tx_id, given),
                ~IsLocked(ledger) /\ given /= None)
        /\ IF IsLocked(ledger)
           THEN Recoverable(table)
           ELSE IF given = None
           THEN Expect(table)
           ELSE /\ accounts' = [table EXCEPT ![client].available =
                                    FAdd(ledger.available, amount)]
                /\ history' = HistoryInsert(tx_id, amount)
                /\ UNCHANGED <<pc, disputed>>

Withdrawal(client, tx_id, field) ==
    LET given  == Deserialize(field)
        amount == given[1]
        table  == Entry(client)
        ledger == table[client]
    IN  /\ tx_id \in FreshTx
        /\ Read(Input("withdrawal", client, tx_id, given),
                ~IsLocked(ledger) /\ given /= None /\ Sufficient(amount, ledger))
        /\ IF IsLocked(ledger)
           THEN Recoverable(table)
           ELSE IF given = None
           THEN Expect(table)
           ELSE IF Sufficient(amount, ledger)
           THEN /\ accounts' = [table EXCEPT ![client].available =
                                    FSub(ledger.available, amount)]
                /\ history' = HistoryInsert(tx_id, amount)
                /\ UNCHANGED <<pc, disputed>>
           ELSE Recoverable(table)

Dispute(client, tx_id) ==
    LET table  == Entry(client)
        ledger == table[client]
        found  == HistoryGet(tx_id)
        amount == found[1]
    IN  /\ Read(Input("dispute", client, tx_id, None), FALSE)
        /\ IF IsLocked(ledger) \/ found = None
           THEN Recoverable(table)
           ELSE /\ accounts' = [table EXCEPT ![client] =
                                    [status    |-> "Disputed",
                                     available |-> FSub(ledger.available, amount),
                                     held      |-> FAdd(ledger.held, amount)]]
                /\ disputed' = [disputed EXCEPT ![client] = @ \cup {tx_id}]
                /\ UNCHANGED <<pc, history>>

Resolve(client, tx_id) ==
    LET table  == Entry(client)
        ledger == table[client]
        found  == HistoryGet(tx_id)
        amount == found[1]
    IN  /\ Read(Input("resolve", client, tx_id, None), FALSE)
        /\ IF IsLocked(ledger) \/ ~IsDisputed(ledger) \/ found = None
           THEN Recoverable(table)
           ELSE /\ accounts' = [table EXCEPT ![client] =
                                    [status    |-> "Default",
                                     held      |-> FSub(ledger.held, amount),
                                     available |-> FAdd(ledger.available, amount)]]
                /\ disputed' = [disputed EXCEPT ![client] = {}]
                /\ UNCHANGED <<pc, history>>

Chargeback(client, tx_id) ==
    LET table  == Entry(client)
        ledger == table[client]
        found  == HistoryGet(tx_id)
        amount == found[1]
    IN  /\ Read(Input("chargeback", client, tx_id, None), FALSE)
        /\ IF IsLocked(ledger) \/ ~IsDisputed(ledger) \/ found = None
           THEN Recoverable(table)
           ELSE /\ accounts' = [table EXCEPT ![client] =
                                    [status    |-> "Locked",
                                     held      |-> FSub(ledger.held, amount),
                                     available |-> ledger.available]]
                /\ disputed' = [disputed EXCEPT ![client] = {}]
                /\ UNCHANGED <<pc, history>>

\* one row of the snapshot: (client, available, held, total, locked)
Row(client) ==
    LET ledger == accounts[client]
    IN  [client |-> client, available |-> ledger.available,
         held |-> ledger.held, total |-> Total(ledger),
         locked |-> IsLocked(ledger)]

\* end of input: the writer serializes one row per entry of the table
Emit ==
    /\ pc = "loop"
    /\ pc' = "done"
    /\ output' = {Row(c) : c \in DOMAIN accounts}
    /\ UNCHANGED <<accounts, history, strict, consumed, tx, before, seen, disputed>>

Next ==
    \/ \E c \in ClientID, t \in TxID, k \in AmountColumn : Deposit(c, t, k)
    \/ \E c \in ClientID, t \in TxID, k \in AmountColumn : Withdrawal(c, t, k)
    \/ \E c \in ClientID, t \in TxID : Dispute(c, t)
    \/ \E c \in ClientID, t \in TxID : Resolve(c, t)
    \/ \E c \in ClientID, t \in TxID : Chargeback(c, t)
    \/ Emit

Spec == Init /\ [][Next]_vars

\* rdr.deserialize() returns None: the loop is left for the code after it
EndOfInput == pc = "loop" /\ pc' = "done"

\* The input is finite and every iteration of the loop ends: while the run
\* has not aborted, the reader comes to the end of the input and the code
\* after the loop writes the snapshot.
LiveSpec == Spec /\ WF_pc(EndOfInput)

\* The body of the loop for one record, as the build with (strict_mode) or
\* without the feature strict_mode compiles it, run on the tables as they
\* are: the `accounts` and HISTORY it leaves, and whether it panics.
Body(record, strict_mode) ==
    LET client == record.client
        table  == Entry(client)
        ledger == table[client]
        found  == HistoryGet(record.tx)
        stop   == [accounts |-> table, history |-> history,
                   pc |-> IF strict_mode THEN "panicked" ELSE "loop"]
        Go(l, h) == [accounts |-> [table EXCEPT ![client] = l],
                     history |-> h, pc |-> "loop"]
    IN  IF IsLocked(ledger) THEN stop
        ELSE IF record.type \in {"deposit", "withdrawal"} /\ record.amount = None
        THEN [accounts |-> table, history |-> history, pc |-> "panicked"]
        ELSE CASE record.type = "deposit" ->
                    Go([ledger EXCEPT !.available =
                            FAdd(ledger.available, record.amount[1])],
                       HistoryInsert(record.tx, record.amount[1]))
               [] record.type = "withdrawal" ->
                    IF Sufficient(record.amount[1], ledger)
                    THEN Go([ledger EXCEPT !.available =
                                 FSub(ledger.available, record.amount[1])],
                            HistoryInsert(record.tx, record.amount[1]))
                    ELSE stop
               [] record.type = "dispute" ->
                    IF found = None THEN stop
                    ELSE Go([status    |-> "Disputed",
                             available |-> FSub(ledger.available, found[1]),
                             held      |-> FAdd(ledger.held, found[1])],
                            history)
               [] record.type = "resolve" ->
                    IF ~IsDisputed(ledger) \/ found = None THEN stop
                    ELSE Go([status    |-> "Default",
                             held      |-> FSub(ledger.held, found[1]),
                             available |-> FAdd(ledger.available, found[1])],
                            history)
               [] record.type = "chargeback" ->
                    IF ~IsDisputed(ledger) \/ found = None THEN stop
                    ELSE Go([status    |-> "Locked",
                             held      |-> FSub(ledger.held, found[1]),
                             available |-> ledger.available],
                            history)

(***************************************************************************)
(* Properties.  In a step that processes a record, tx' is the record,      *)
(* Found is the ledger of its client as the record finds it (the default   *)
(* ledger for a new client) and Left is the ledger as the record leaves it.*)
(***************************************************************************)
Processes(types) == consumed' = consumed + 1 /\ tx'.type \in types

Found == Entry(tx'.client)[tx'.client]

Left == accounts'[tx'.client]

\* the ledgers of the clients the record is not addressed to are kept
OthersKept == \A c \in DOMAIN accounts \ {tx'.client} : accounts'[c] = accounts[c]

\* a record has been processed and the run goes on in default mode
Skipping == consumed > 0 /\ ~strict /\ pc = "loop"

\* C1: once an account is Locked, no step changes its available, held or
\* status.
C1_LockedAccountFrozen ==
    [][\A c \in DOMAIN accounts :
          accounts[c].status = "Locked" =>
              c \in DOMAIN accounts' /\ accounts'[c] = accounts[c]]_vars

\* a deposit was addressed to an account that a chargeback had locked before
C1_Witness ==
    /\ Skipping
    /\ tx.type = "deposit"
    /\ before[1].status = "Locked"
    /\ accounts[tx.client] = before[1]

\* C2: a withdrawal changes the account or the history only when
\* amount <= available, and then available becomes available - amount; in
\* default mode a withdrawal with amount > available leaves the account and
\* the history as they were. (A withdrawal record without amount changes
\* neither.)
C2_WithdrawalGuard ==
    [][Processes({"withdrawal"}) =>
          LET amount == tx'.amount[1]
          IN  IF tx'.amount = None
              THEN Left = Found /\ history' = history
              ELSE /\ (Left /= Found \/ history' /= history) =>
                        /\ FLe(amount, Found.available)
                        /\ Left = [Found EXCEPT !.available =
                                      FSub(Found.available, amount)]
                   /\ (~FLe(amount, Found.available) /\ ~strict) =>
                        /\ Left = Found
                        /\ history' = history
                        /\ OthersKept]_vars

\* a withdrawal of more than the non-zero available was discarded
C2_Witness ==
    /\ Skipping
    /\ tx.type = "withdrawal"
    /\ before[1].status = "Default"
    /\ before[1].available /= Zero
    /\ tx.amount /= None
    /\ ~FLe(tx.amount[1], before[1].available)
    /\ accounts[tx.client] = before[1]
    /\ tx.tx \notin DOMAIN history

\* C3: held >= 0 for every account, in every reachable state.
C3_HeldNonNegative ==
    \A c \in DOMAIN accounts : ~accounts[c].held.neg

\* C4: a dispute of a recorded tx that finds the account Active, followed at
\* once by a resolve of the same tx for the same client, leaves available and
\* held as the dispute found them and the status Active again.
C4_DisputeResolveRoundTrip ==
    [][(/\ consumed > 0
        /\ tx.type = "dispute"
        /\ tx.tx \in DOMAIN history
        /\ before[1].status = "Default"
        /\ Processes({"resolve"})
        /\ tx'.client = tx.client
        /\ tx'.tx = tx.tx)
       => /\ Left.available = before[1].available
          /\ Left.held = before[1].held
          /\ Left.status = "Default"]_vars

\* C5: a chargeback applied to a Disputed account keeps available, takes the
\* amount of the tx under dispute (and so that much of available + held) off
\* held, and locks the account.
C5_ChargebackRemovesDisputedAmount ==
    [][(Processes({"chargeback"}) /\ Found.status = "Disputed" /\ Left /= Found)
       => /\ Left.status = "Locked"
          /\ Left.available = Found.available
          /\ \A t \in disputed[tx'.client] :
                Left.held = FSub(Found.held, history[t])]_vars

\* C6: a dispute of a tx the client recorded earlier, with amount a, that
\* finds the account Active sets available to available - a, held to
\* held + a and the status to Disputed, and leaves available + held as it
\* was.
C6_DisputeHoldsFunds ==
    [][(/\ Processes({"dispute"})
        /\ Found.status = "Default"
        /\ tx'.tx \in DOMAIN history
        /\ seen[tx'.tx].client = tx'.client)
       => LET a == history[tx'.tx]
          IN  /\ Left = [status    |-> "Disputed",
                         available |-> FSub(Found.available, a),
                         held      |-> FAdd(Found.held, a)]
              /\ Total(Left) = Total(Found)]_vars

\* C7: in default mode a dispute of a tx id that no applied deposit or
\* withdrawal has carried so far changes no ledger.
C7_UnknownDisputeIgnored ==
    [][(/\ Processes({"dispute"})
        /\ ~strict
        /\ ~(tx'.tx \in DOMAIN seen /\ seen[tx'.tx].applied))
       => Left = Found /\ OthersKept]_vars

\* a dispute of the tx id of a discarded withdrawal left a funded account as
\* it was
C7_Witness ==
    /\ Skipping
    /\ tx.type = "dispute"
    /\ tx.tx \in DOMAIN seen
    /\ ~seen[tx.tx].applied
    /\ before[1].status = "Default"
    /\ before[1].available /= Zero
    /\ accounts[tx.client] = before[1]

\* C8: a dispute, resolve or chargeback of a tx that a deposit or withdrawal
\* of another client recorded changes nothing.
C8_ForeignTxIgnored ==
    [][(/\ Processes({"dispute", "resolve", "chargeback"})
        /\ tx'.tx \in DOMAIN seen
        /\ seen[tx'.tx].applied
        /\ seen[tx'.tx].client /= tx'.client)
       => Left = Found]_vars

\* C9: in default mode a resolve or chargeback that finds the account not
\* Disputed changes no ledger, whatever tx id it names.
C9_NotDisputedIgnored ==
    [][(/\ Processes({"resolve", "chargeback"})
        /\ ~strict
        /\ Found.status /= "Disputed")
       => Left = Found /\ OthersKept]_vars

\* a resolve or chargeback of a recorded tx left a funded Active account as
\* it was
C9_Witness ==
    /\ Skipping
    /\ tx.type \in {"resolve", "chargeback"}
    /\ tx.tx \in DOMAIN history
    /\ before[1].status = "Default"
    /\ before[1].available /= Zero
    /\ accounts[tx.client] = before[1]

\* C10: a resolve or chargeback of a tx that is not under dispute on the
\* account changes nothing.
C10_OtherTxIgnored ==
    [][(/\ Processes({"resolve", "chargeback"})
        /\ tx'.tx \notin disputed[tx'.client])
       => Left = Found]_vars

\* C11: a dispute addressed to an account that is already Disputed moves no
\* further funds from available to held.
C11_DisputeOnlyFromActive ==
    [][(Processes({"dispute"}) /\ Found.status = "Disputed")
       => Left = Found]_vars

\* C12: the status of an account changes only from Active to Disputed in a
\* dispute, from Disputed to Active in a resolve and from Disputed to Locked
\* in a chargeback addressed to it (so Locked is never left); a chargeback
\* of a recorded tx that finds the account Disputed locks it, and a row is
\* written with locked = true exactly for a Locked account.
C12_StatusEdges ==
    [][/\ \A c \in DOMAIN accounts' :
            LET old == IF c \in DOMAIN accounts THEN accounts[c].status
                       ELSE "Default"
                new == accounts'[c].status
            IN  old /= new =>
                    /\ consumed' = consumed + 1
                    /\ tx'.client = c
                    /\ \/ old = "Default" /\ new = "Disputed" /\ tx'.type = "dispute"
                       \/ old = "Disputed" /\ new = "Default" /\ tx'.type = "resolve"
                       \/ old = "Disputed" /\ new = "Locked" /\ tx'.type = "chargeback"
       /\ (/\ Processes({"chargeback"})
           /\ Found.status = "Disputed"
           /\ tx'.tx \in DOMAIN history) => Left.status = "Locked"
       /\ \A r \in output' :
            r.locked = (accounts'[r.client].status = "Locked")]_vars

\* the snapshot was written right after a chargeback had locked a Disputed
\* account, and its row says locked
C12_Witness ==
    /\ pc = "done"
    /\ consumed > 0
    /\ tx.type = "chargeback"
    /\ before[1].status = "Disputed"
    /\ \E r \in output : r.client = tx.client /\ r.locked

\* the record read finds a condition the loop recovers from: a Locked
\* account, a withdrawal of more than available, a dispute, resolve or
\* chargeback of a tx id not in the history, a resolve or chargeback of an
\* account that is not Disputed
HitsRecoverable ==
    \/ Found.status = "Locked"
    \/ /\ tx'.type = "withdrawal"
       /\ tx'.amount /= None
       /\ ~FLe(tx'.amount[1], Found.available)
    \/ tx'.type \in {"dispute", "resolve", "chargeback"} /\ tx'.tx \notin DOMAIN history
    \/ tx'.type \in {"resolve", "chargeback"} /\ Found.status /= "Disputed"

\* C13: under strict_mode a record that hits a recoverable condition aborts
\* the run; after the abort no record is processed and no row is written.
C13_StrictModeAborts ==
    [][/\ (strict /\ consumed' = consumed + 1 /\ HitsRecoverable) => pc' = "panicked"
       /\ pc = "panicked" => output = {} /\ UNCHANGED vars]_vars

\* a strict run aborted on a record after it had applied an earlier one
C13_Witness ==
    /\ strict
    /\ pc = "panicked"
    /\ consumed > 1
    /\ history /= <<>>
    /\ output = {}

\* the record read last is a deposit or withdrawal without amount, which
\* the input format does not allow
MissingAmount ==
    /\ consumed > 0
    /\ tx.type \in {"deposit", "withdrawal"}
    /\ tx.amount = None

\* C14, as stated: in default mode the run over any records that
\* deserialize never aborts, and the snapshot is eventually written.
C14_NeverAborts ==
    ~strict => [](pc /= "panicked") /\ <>(pc = "done")

\* C14, amended: in default mode a run over records in which every deposit
\* and withdrawal carries an amount never aborts, and its snapshot is
\* eventually written: a run aborts on a deposit or withdrawal without
\* amount only, and every other run reaches the snapshot.
C14_DefaultModeCompletes ==
    ~strict => /\ [](pc = "panicked" => MissingAmount)
               /\ <>(pc = "done" \/ (pc = "panicked" /\ MissingAmount))

\* a default-mode run that discarded a withdrawal wrote its snapshot
C14_Witness ==
    /\ ~strict
    /\ pc = "done"
    /\ output /= {}
    /\ \E t \in DOMAIN seen : ~seen[t].applied

\* C15: in default mode a record adds the client it is addressed to to the
\* table, if it is not there yet, and nothing else; no step removes a client;
\* a new client whose first record is discarded is left with available 0,
\* held 0, Active; the snapshot has one row for each client of the table.
C15_TableHoldsReferencedClients ==
    [][~strict =>
          /\ DOMAIN accounts' =
                IF consumed' = consumed + 1
                THEN DOMAIN accounts \cup {tx'.client}
                ELSE DOMAIN accounts
          /\ (/\ consumed' = consumed + 1
              /\ tx'.client \notin DOMAIN accounts
              /\ \/ tx'.type \in {"withdrawal", "resolve", "chargeback"}
                 \/ tx'.type = "dispute" /\ tx'.tx \notin DOMAIN history)
             => Left = [available |-> Zero, held |-> Zero, status |-> "Default"]
          /\ pc' = "done" =>
                /\ {r.client : r \in output'} = DOMAIN accounts'
                /\ Cardinality(output') = Cardinality(DOMAIN accounts')]_vars

\* the snapshot has a row for a client whose only records were discarded
\* withdrawals, next to the row of another client
C15_Witness ==
    /\ ~strict
    /\ pc = "done"
    /\ Cardinality(output) = 2
    /\ \E c \in DOMAIN accounts :
          /\ \E t \in DOMAIN seen : seen[t].client = c
          /\ \A t \in DOMAIN seen : seen[t].client = c => ~seen[t].applied
          /\ accounts[c] = [available |-> Zero, held |-> Zero, status |-> "Default"]
          /\ \E r \in output : r.client = c /\ r.total = Zero /\ ~r.locked

\* C16: available + held of a client grows by the amount of each applied
\* deposit, shrinks by the amount of each applied withdrawal and by the amount
\* an applied chargeback removes, and is left as it was by every dispute and
\* resolve; the total of a row is available + held.
C16_TotalIsNetOfAppliedRecords ==
    [][/\ Processes(Tx) =>
            LET applied == Left /= Found
            IN  /\ (tx'.type = "deposit" /\ applied) =>
                      Total(Left) = FAdd(Total(Found), tx'.amount[1])
                /\ (tx'.type = "withdrawal" /\ applied) =>
                      Total(Left) = FSub(Total(Found), tx'.amount[1])
                /\ (tx'.type = "chargeback" /\ applied) =>
                      Total(Left) = FSub(Total(Found), history[tx'.tx])
                /\ tx'.type \in {"dispute", "resolve"} =>
                      Total(Left) = Total(Found)
       /\ \A r \in output' : r.total = FAdd(r.available, r.held)]_vars

\* C17: a resolve that finds the account Disputed always finds the amount of
\* its tx id in the history, is applied, and returns the account to Active.
C17_ResolveAlwaysFinds ==
    [][(Processes({"resolve"}) /\ Found.status = "Disputed")
       => tx'.tx \in DOMAIN history /\ Left.status = "Default"]_vars

\* C17, amended: a resolve that finds the account Disputed returns it to
\* Active when an applied deposit or withdrawal recorded its tx id; when none
\* did, the resolve leaves the account as it was, and the run goes on in
\* default mode and aborts under strict_mode.
C17_ResolveAppliedIffFound ==
    [][(Processes({"resolve"}) /\ Found.status = "Disputed")
       => IF tx'.tx \in DOMAIN seen /\ seen[tx'.tx].applied
          THEN Left.status = "Default" /\ pc' = "loop"
          ELSE Left = Found /\ pc' = (IF strict THEN "panicked" ELSE "loop")]_vars

\* a resolve of an unrecorded tx id left a Disputed account as it was
C17_Witness ==
    /\ Skipping
    /\ tx.type = "resolve"
    /\ before[1].status = "Disputed"
    /\ tx.tx \notin DOMAIN history
    /\ accounts[tx.client] = before[1]

\* C18: no step removes an entry of the history; a deposit addressed to an
\* account that is not Locked, and a withdrawal of at most available from
\* such an account, add the entry (tx id -> amount) and change no other
\* entry; every other step (a record without amount among them) leaves the
\* history as it was.
C18_HistoryAppendOnly ==
    [][/\ DOMAIN history \subseteq DOMAIN history'
       /\ IF /\ consumed' = consumed + 1
             /\ tx'.type \in {"deposit", "withdrawal"}
             /\ Found.status /= "Locked"
             /\ tx'.amount /= None
             /\ tx'.type = "withdrawal" => FLe(tx'.amount[1], Found.available)
          THEN /\ DOMAIN history' = DOMAIN history \cup {tx'.tx}
               /\ history'[tx'.tx] = tx'.amount[1]
               /\ \A t \in DOMAIN history \ {tx'.tx} : history'[t] = history[t]
          ELSE history' = history]_vars

\* a deposit addressed to a Locked account added nothing to a history that
\* holds earlier entries
C18_Witness ==
    /\ Skipping
    /\ tx.type = "deposit"
    /\ before[1].status = "Locked"
    /\ history /= <<>>
    /\ tx.tx \notin DOMAIN history

\* C19: a deposit or withdrawal, applied or discarded, leaves held and status
\* of the account it is addressed to as they were; held of an account
\* changes only in a dispute, resolve or chargeback addressed to it.
C19_MoneyRecordsKeepHeld ==
    [][/\ Processes({"deposit", "withdrawal"}) =>
            Left.held = Found.held /\ Left.status = Found.status
       /\ \A c \in DOMAIN accounts :
            (c \notin DOMAIN accounts' \/ accounts'[c].held /= accounts[c].held) =>
                /\ Processes({"dispute", "resolve", "chargeback"})
                /\ tx'.client = c
                /\ c \in DOMAIN accounts']_vars

\* a deposit was applied to a Disputed account with funds held
C19_Witness ==
    /\ consumed > 0
    /\ tx.type = "deposit"
    /\ before[1].status = "Disputed"
    /\ before[1].held /= Zero
    /\ accounts[tx.client].available /= before[1].available
    /\ accounts[tx.client].held = before[1].held
    /\ accounts[tx.client].status = "Disputed"

\* C20: a record addressed to a client leaves the ledger of every other
\* client in the table, as it was.
C20_OtherClientsUntouched ==
    [][Processes(Tx) =>
          \A c \in DOMAIN accounts \ {tx'.client} :
              c \in DOMAIN accounts' /\ accounts'[c] = accounts[c]]_vars

\* client 2 disputed the deposit of client 1: the funds were held on the
\* account of client 2 and the account of client 1 still has the deposit
C20_Witness ==
    /\ consumed > 0
    /\ tx.type = "dispute"
    /\ tx.client = 2
    /\ tx.tx \in DOMAIN history
    /\ seen[tx.tx].client = 1
    /\ accounts[2].status = "Disputed"
    /\ accounts[1] = [available |-> history[tx.tx], held |-> Zero,
                      status |-> "Default"]

\* C21: from the same tables, the same record leaves the same `accounts` and
\* HISTORY with and without strict_mode unless it hits a recoverable
\* condition, on which the strict build panics and the default build goes
\* on; a run is the body of its own build applied record after record, and
\* the rows written at the end of the input are those of `accounts`.  So the
\* two builds agree on both tables after every record up to the first
\* recoverable condition, and on the snapshot when there is none.
C21_ModesAgreeUntilRecoverable ==
    [][/\ Processes(Tx) =>
            Let(<<Body(tx', TRUE), Body(tx', FALSE)>>,
                LAMBDA both :
                    LET on  == both[1]
                        off == both[2]
                        run == IF strict THEN on ELSE off
                    IN  /\ accounts' = run.accounts
                        /\ history' = run.history
                        /\ pc' = run.pc
                        /\ IF HitsRecoverable
                           THEN on.pc = "panicked" /\ off.pc = "loop"
                           ELSE on = off)
       /\ pc' = "done" =>
            output' = {[client    |-> c,
                        available |-> accounts'[c].available,
                        held      |-> accounts'[c].held,
                        total     |-> FAdd(accounts'[c].available, accounts'[c].held),
                        locked    |-> accounts'[c].status = "Locked"] :
                       c \in DOMAIN accounts'}]_vars

\* a strict run applied records of both clients, a dispute and a resolve
\* among them, hit no recoverable condition and wrote its snapshot
C21_Witness ==
    /\ strict
    /\ pc = "done"
    /\ consumed = 4
    /\ tx.type = "resolve"
    /\ Cardinality(output) = 2

====
